---- MODULE Spec2Model ----
(***************************************************************************)
(* Prefix suggestion index for AMP records (rethink-about-amp).            *)
(*                                                                         *)
(* A string is the sequence of its Unicode scalar values; as_bytes is its  *)
(* UTF-8 encoding.  chars().count() is the length of the scalar sequence,  *)
(* len() the length of the byte sequence.  Rust indexes from 0, the        *)
(* sequences here from 1: position p of the source is position p + 1.      *)
(***************************************************************************)
EXTENDS Integers, Sequences, FiniteSets, TLC

VARIABLES amps, index, pc, query, results, best_match, collapser, encoding,
          dictionary, stats, manager

vars == <<amps, index, pc, query, results, best_match, collapser, encoding,
         dictionary, stats, manager>>

----------------------------------------------------------------------------
(* Strings and bytes                                                       *)

Min(a, b) == IF a < b THEN a ELSE b

\* UTF-8 encoding of one scalar value below U+0800.
Utf8Char(c) ==
    IF c < 128 THEN <<c>> ELSE <<192 + (c \div 64), 128 + (c % 64)>>

RECURSIVE as_bytes(_)
as_bytes(s) ==
    IF s = <<>> THEN <<>> ELSE Utf8Char(Head(s)) \o as_bytes(Tail(s))

char_count(s) == Len(s)

byte_len(s) == Len(as_bytes(s))

\* <[u8]>::starts_with
bytes_starts_with(b, p) ==
    /\ Len(p) <= Len(b)
    /\ SubSeq(b, 1, Len(p)) = p

\* str::starts_with: a byte-prefix test on the UTF-8 encodings.
starts_with(s, p) == bytes_starts_with(as_bytes(s), as_bytes(p))

\* Ord for [u8]: lexicographic byte order.
bytes_less(x, y) ==
    \E i \in 1..(Min(Len(x), Len(y)) + 1) :
        /\ \A k \in 1..(i - 1) : x[k] = y[k]
        /\ \/ i > Len(x) /\ i <= Len(y)
           \/ i <= Len(x) /\ i <= Len(y) /\ x[i] < y[i]

bytes_leq(x, y) == x = y \/ bytes_less(x, y)

\* The keys of a set in ascending byte order.
RECURSIVE Ascending(_)
Ascending(S) ==
    IF S = {} THEN <<>>
    ELSE LET m == CHOOSE x \in S : \A y \in S : bytes_leq(x, y)
         IN  <<m>> \o Ascending(S \ {m})

RECURSIVE Reverse(_)
Reverse(s) == IF s = <<>> THEN <<>> ELSE Reverse(Tail(s)) \o <<Head(s)>>

Put(f, k, v) == [x \in DOMAIN f \cup {k} |-> IF x = k THEN v ELSE f[x]]

EmptyMap == [x \in {} |-> 0]

----------------------------------------------------------------------------
(* common.rs: FullKeyword                                                  *)

\* Fault: the tag is Same whatever the full keyword.
FullKeyword_new_same(keyword, full_keyword) == [tag |-> "Same"]

FullKeyword_new(keyword, full_keyword) ==
    IF keyword = full_keyword
    THEN [tag |-> "Same"]
    ELSE [tag |-> "Different", text |-> full_keyword]

----------------------------------------------------------------------------
(* common.rs: RunEndEncoding                                               *)

RunEndEncoding_new == [values |-> <<>>, indices |-> <<>>]

\* usize arithmetic.  The width is scaled down from 64 bits so that the
\* model checker can represent usize::MAX; every index of the model is far
\* below it, so only 0 - 1 and usize::MAX + n wrap.
UsizeBits == 30
UsizeMax == 2^UsizeBits - 1

wrapping_add(a, b) == (a + b) % (UsizeMax + 1)
wrapping_sub(a, b) == (a - b + UsizeMax + 1) % (UsizeMax + 1)

\* The arithmetic of add leaves the range of usize: count - 1 for a first
\* count of 0, last + count beyond usize::MAX.
add_overflows(self, count) ==
    IF self.indices = <<>>
    THEN count < 1
    ELSE self.indices[Len(self.indices)] + count > UsizeMax

\* add as it runs to its end: with wrapping arithmetic where the build has
\* no overflow checks.
RunEndEncoding_add(self, value, count) ==
    LET next_index == IF self.indices = <<>>
                      THEN wrapping_sub(count, 1)
                      ELSE wrapping_add(self.indices[Len(self.indices)], count)
    IN  [values |-> Append(self.values, value),
         indices |-> Append(self.indices, next_index)]

\* add in a build with overflow checks when the arithmetic overflows: the
\* value is pushed, then the computation of next_index panics.
RunEndEncoding_add_panics(self, value) ==
    [values |-> Append(self.values, value), indices |-> self.indices]

\* slice::binary_search on the sorted run ends: Ok(i) for an element equal
\* to index, Err(i) for the insertion point (0-based).
binary_search(indices, idx) ==
    IF \E i \in 1..Len(indices) : indices[i] = idx
    THEN [ok |-> TRUE,
          pos |-> (CHOOSE i \in 1..Len(indices) : indices[i] = idx) - 1]
    ELSE [ok |-> FALSE,
          pos |-> Cardinality({i \in 1..Len(indices) : indices[i] < idx})]

\* Option<&str>: [some |-> FALSE] is None.
RunEndEncoding_get(self, idx) ==
    LET r == binary_search(self.indices, idx)
    IN  IF r.ok
        THEN [some |-> TRUE, value |-> self.values[r.pos + 1]]
        ELSE IF r.pos = 0
             THEN [some |-> FALSE]
             ELSE [some |-> TRUE, value |-> self.values[r.pos]]

----------------------------------------------------------------------------
(* Dictionary encoding: intern (blart.rs, hybrid.rs), extract_template     *)

\* Fault: the lookup is not consulted; every value is given the next id of
\* the dictionary.
intern_always_new(value, lookup, dict) ==
    [id |-> Cardinality(DOMAIN dict),
     lookup |-> Put(lookup, value, Cardinality(DOMAIN dict)),
     dict |-> Put(dict, Cardinality(DOMAIN dict), value)]

\* lookup maps a string to its id, dict an id to its string.  The result
\* carries the id and the two maps after the call.
intern(value, lookup, dict) ==
    IF value \in DOMAIN lookup
    THEN [id |-> lookup[value], lookup |-> lookup, dict |-> dict]
    ELSE LET id == Cardinality(DOMAIN lookup)
         IN  [id |-> id,
              lookup |-> Put(lookup, value, id),
              dict |-> Put(dict, id, value)]

\* str::find / str::rfind of one char: the 0-based position, or -1 for None.
find(s, c) ==
    IF \E i \in 1..Len(s) : s[i] = c
    THEN (CHOOSE i \in 1..Len(s) : s[i] = c /\ \A k \in 1..(i - 1) : s[k] # c) - 1
    ELSE -1

rfind(s, c) ==
    IF \E i \in 1..Len(s) : s[i] = c
    THEN (CHOOSE i \in 1..Len(s) : s[i] = c /\ \A k \in (i + 1)..Len(s) : s[k] # c) - 1
    ELSE -1

\* '?' and '/'
QuestionMark == 63
Slash == 47

\* Fault: the last '/' is looked for before the first '?'.
split_idx_slash_first(url) ==
    IF rfind(url, Slash) # -1 THEN rfind(url, Slash)
    ELSE IF find(url, QuestionMark) # -1 THEN find(url, QuestionMark)
    ELSE 0

\* '?' and '/' are one byte each and no byte of a longer char equals them,
\* so the byte offset that find returns and split_at takes cuts the scalar
\* sequence at the same place.
split_idx(url) ==
    IF find(url, QuestionMark) # -1 THEN find(url, QuestionMark)
    ELSE IF rfind(url, Slash) # -1 THEN rfind(url, Slash)
    ELSE 0

\* Fault: a template that is already in the lookup is given the next free
\* id, which no dictionary entry carries.
extract_template_unseen_id(url, template_lookup, templates) ==
    LET at == split_idx(url)
        id == Cardinality(DOMAIN template_lookup)
    IN  [id |-> id, suffix |-> SubSeq(url, at + 1, Len(url)),
         lookup |-> IF SubSeq(url, 1, at) \in DOMAIN template_lookup
                    THEN template_lookup
                    ELSE Put(template_lookup, SubSeq(url, 1, at), id),
         dict |-> IF SubSeq(url, 1, at) \in DOMAIN template_lookup
                  THEN templates
                  ELSE Put(templates, id, SubSeq(url, 1, at))]

extract_template(url, template_lookup, templates) ==
    LET at == split_idx(url)
        template == SubSeq(url, 1, at)
        suffix == SubSeq(url, at + 1, Len(url))
    IN  IF template \in DOMAIN template_lookup
        THEN [id |-> template_lookup[template], suffix |-> suffix,
              lookup |-> template_lookup, dict |-> templates]
        ELSE LET id == Cardinality(DOMAIN template_lookup)
             IN  [id |-> id, suffix |-> suffix,
                  lookup |-> Put(template_lookup, template, id),
                  dict |-> Put(templates, id, template)]

\* Fault: the template is dropped and the suffix alone is returned.
reconstruct_url_suffix_only(template_id, suffix, templates) == suffix

\* reconstruct_url (blart.rs, hybrid.rs)
reconstruct_url(template_id, suffix, templates) ==
    IF template_id \in DOMAIN templates
    THEN templates[template_id] \o suffix
    ELSE suffix

----------------------------------------------------------------------------
(* common.rs: the keyword collapser                                        *)

\* The inner loop: the end j of the run that starts at i (both as in the
\* source, 0-based, j exclusive), reached from j with n_collapsed steps.
RECURSIVE extend_run(_, _, _, _, _)
extend_run(words, curr, curr_len, j, n_collapsed) ==
    IF /\ j < Len(words)
       /\ starts_with(words[j + 1], curr)
       /\ char_count(words[j + 1]) = curr_len + n_collapsed + 1
    THEN extend_run(words, curr, curr_len, j + 1, n_collapsed + 1)
    ELSE j

\* Fault: curr_len is taken as the byte length (len) of curr, not its
\* char count.
RECURSIVE collapse_runs_byte_len(_, _)
collapse_runs_byte_len(words, i) ==
    IF i >= Len(words) THEN <<>>
    ELSE LET curr == words[i + 1]
             curr_len == byte_len(curr)
             j == extend_run(words, curr, curr_len, i + 1, 0)
         IN  IF j > i + 1
             THEN <<[i |-> i, j |-> j, curr_len |-> curr_len]>>
                      \o collapse_runs_byte_len(words, j)
             ELSE <<[i |-> i, j |-> i + 1, curr_len |-> curr_len]>>
                      \o collapse_runs_byte_len(words, i + 1)

\* Fault: the emitted min_prefix_len is one less than the char count of
\* the first keyword of the run.
RECURSIVE collapse_runs_one_less(_, _)
collapse_runs_one_less(words, i) ==
    IF i >= Len(words) THEN <<>>
    ELSE LET curr == words[i + 1]
             curr_len == char_count(curr)
             j == extend_run(words, curr, curr_len, i + 1, 0)
         IN  IF j > i + 1
             THEN <<[i |-> i, j |-> j, curr_len |-> curr_len - 1]>>
                      \o collapse_runs_one_less(words, j)
             ELSE <<[i |-> i, j |-> i + 1, curr_len |-> curr_len - 1]>>
                      \o collapse_runs_one_less(words, i + 1)

\* The outer loop over a list of words: the runs [i, j) it forms, each with
\* the curr_len it emits.
RECURSIVE collapse_runs(_, _)
collapse_runs(words, i) ==
    IF i >= Len(words) THEN <<>>
    ELSE LET curr == words[i + 1]
             curr_len == char_count(curr)
             j == extend_run(words, curr, curr_len, i + 1, 0)
         IN  IF j > i + 1
             THEN <<[i |-> i, j |-> j, curr_len |-> curr_len]>>
                      \o collapse_runs(words, j)
             ELSE <<[i |-> i, j |-> i + 1, curr_len |-> curr_len]>>
                      \o collapse_runs(words, i + 1)

\* Vec<(String, usize)>
collapse_keywords(keywords) ==
    LET runs == collapse_runs(keywords, 0)
    IN  [n \in 1..Len(runs) |->
            [key |-> keywords[runs[n].j], min_prefix_len |-> runs[n].curr_len]]

\* Fault: every pair is expanded to one element, whatever its count.
RECURSIVE expand_rle_once(_)
expand_rle_once(full_keywords) ==
    IF full_keywords = <<>> THEN <<>>
    ELSE <<Head(full_keywords).text>> \o expand_rle_once(Tail(full_keywords))

\* The run-length expansion of full_keywords (flat_map over repeat_n).
RECURSIVE expand_rle(_)
expand_rle(full_keywords) ==
    IF full_keywords = <<>> THEN <<>>
    ELSE [k \in 1..Head(full_keywords).count |-> Head(full_keywords).text]
             \o expand_rle(Tail(full_keywords))

\* Iterator::zip stops at the shorter side.
zip_len(keywords, full_keywords) ==
    Min(Len(keywords), Len(expand_rle(full_keywords)))

\* Vec<(String, usize, FullKeyword)>
collapse_keywords_ex(keywords, full_keywords) ==
    LET fks == expand_rle(full_keywords)
        n_ext == zip_len(keywords, full_keywords)
        words == SubSeq(keywords, 1, n_ext)
        runs == collapse_runs(words, 0)
    IN  [n \in 1..Len(runs) |->
            [key |-> words[runs[n].j],
             min_prefix_len |-> runs[n].curr_len,
             full_keyword |-> FullKeyword_new(words[runs[n].j], fks[runs[n].j])]]

----------------------------------------------------------------------------
(* blart.rs: BlartAmpIndex                                                 *)

BlartAmpIndex_new ==
    [variant |-> "blart",
     keyword_tree |-> EmptyMap,
     suggestions |-> <<>>,
     advertisers |-> EmptyMap,
     titles |-> EmptyMap,
     url_templates |-> EmptyMap,
     click_templates |-> EmptyMap,
     imp_templates |-> EmptyMap,
     iab_categories |-> EmptyMap,
     icons |-> EmptyMap]

\* The lookup tables a build call starts with.
NewLookups ==
    [adv |-> EmptyMap, title |-> EmptyMap, url |-> EmptyMap, click |-> EmptyMap,
     imp |-> EmptyMap, iab |-> EmptyMap, icon |-> EmptyMap]

\* Fault: a later occurrence of a key replaces the one stored.
try_insert_replacing(tree, key, metadata) == Put(tree, key, metadata)

\* TreeMap::try_insert as build relies on it: the first occurrence of a key
\* is kept, a later one is dropped.
try_insert(tree, key, metadata) ==
    IF key \in DOMAIN tree THEN tree ELSE Put(tree, key, metadata)

\* Fault: every entry is given the index of the first record instead of the
\* index of the record that is being built.
RECURSIVE blart_insert_keywords_first_idx(_, _, _, _)
blart_insert_keywords_first_idx(tree, entries, sidx, n) ==
    IF n > Len(entries) THEN tree
    ELSE blart_insert_keywords_first_idx(
             try_insert(tree, as_bytes(entries[n].key),
                        [suggestion_idx |-> 0,
                         min_prefix_len |-> entries[n].min_prefix_len,
                         full_keyword |-> entries[n].full_keyword,
                         collapsed_keyword |-> entries[n].key]),
             entries, sidx, n + 1)

\* Fault: the index of the record is read after the push, one past the
\* position of the record.
RECURSIVE blart_insert_keywords_after_push(_, _, _, _)
blart_insert_keywords_after_push(tree, entries, sidx, n) ==
    IF n > Len(entries) THEN tree
    ELSE blart_insert_keywords_after_push(
             try_insert(tree, as_bytes(entries[n].key),
                        [suggestion_idx |-> sidx + 1,
                         min_prefix_len |-> entries[n].min_prefix_len,
                         full_keyword |-> entries[n].full_keyword,
                         collapsed_keyword |-> entries[n].key]),
             entries, sidx, n + 1)

\* The loop over the collapsed keywords of one record, from entry n on.
RECURSIVE blart_insert_keywords(_, _, _, _)
blart_insert_keywords(tree, entries, sidx, n) ==
    IF n > Len(entries) THEN tree
    ELSE LET e == entries[n]
             metadata == [suggestion_idx |-> sidx,
                          min_prefix_len |-> e.min_prefix_len,
                          full_keyword |-> e.full_keyword,
                          collapsed_keyword |-> e.key]
         IN  blart_insert_keywords(try_insert(tree, as_bytes(e.key), metadata),
                                   entries, sidx, n + 1)

\* The body of the loop of build for one record: the index and the lookup
\* tables after it.
blart_build_one(self, lk, amp) ==
    LET adv == intern(amp.advertiser, lk.adv, self.advertisers)
        title == intern(amp.title, lk.title, self.titles)
        iab == intern(amp.iab_category, lk.iab, self.iab_categories)
        icon == intern(amp.icon_id, lk.icon, self.icons)
        url == extract_template(amp.url, lk.url, self.url_templates)
        click == extract_template(amp.click_url, lk.click, self.click_templates)
        imp == extract_template(amp.impression_url, lk.imp, self.imp_templates)
        sidx == Len(self.suggestions)
        sug == [title_id |-> title.id,
                url_tid |-> url.id, url_suffix |-> url.suffix,
                click_tid |-> click.id, click_suffix |-> click.suffix,
                imp_tid |-> imp.id, imp_suffix |-> imp.suffix,
                advertiser_id |-> adv.id,
                block_id |-> amp.block_id,
                iab_id |-> iab.id,
                icon_id |-> icon.id]
    IN  [self |->
            [variant |-> "blart",
             keyword_tree |->
                 blart_insert_keywords(self.keyword_tree,
                     collapse_keywords_ex(amp.keywords, amp.full_keywords), sidx, 1),
             suggestions |-> Append(self.suggestions, sug),
             advertisers |-> adv.dict,
             titles |-> title.dict,
             url_templates |-> url.dict,
             click_templates |-> click.dict,
             imp_templates |-> imp.dict,
             iab_categories |-> iab.dict,
             icons |-> icon.dict],
         lk |->
            [adv |-> adv.lookup, title |-> title.lookup, url |-> url.lookup,
             click |-> click.lookup, imp |-> imp.lookup, iab |-> iab.lookup,
             icon |-> icon.lookup]]

RECURSIVE blart_build_from(_, _, _, _)
blart_build_from(self, lk, records, n) ==
    IF n > Len(records) THEN self
    ELSE LET step == blart_build_one(self, lk, records[n])
         IN  blart_build_from(step.self, step.lk, records, n + 1)

BlartAmpIndex_build(self, records) == blart_build_from(self, NewLookups, records, 1)

\* HashMap::get(..).cloned().unwrap_or_default()
get_or_default(dict, id) == IF id \in DOMAIN dict THEN dict[id] ELSE <<>>

\* results.push(AmpResult { .. })
push_result(res, r) == Append(res, r)

BlartAmpIndex_build_result(self, metadata, res) ==
    LET sug == self.suggestions[metadata.suggestion_idx + 1]
        full_keyword == IF metadata.full_keyword.tag = "Same"
                        THEN metadata.collapsed_keyword
                        ELSE metadata.full_keyword.text
    IN  push_result(res,
            [title |-> get_or_default(self.titles, sug.title_id),
             url |-> reconstruct_url(sug.url_tid, sug.url_suffix, self.url_templates),
             click_url |-> reconstruct_url(sug.click_tid, sug.click_suffix,
                                           self.click_templates),
             impression_url |-> reconstruct_url(sug.imp_tid, sug.imp_suffix,
                                                self.imp_templates),
             advertiser |-> get_or_default(self.advertisers, sug.advertiser_id),
             block_id |-> sug.block_id,
             iab_category |-> get_or_default(self.iab_categories, sug.iab_id),
             icon |-> get_or_default(self.icons, sug.icon_id),
             full_keyword |-> full_keyword])

\* Fault: the admission test is left out.
admits_any(query_len, min_prefix_len) == TRUE

\* The min-prefix admission test of a candidate.
admits(query_len, min_prefix_len) == query_len >= min_prefix_len

\* TreeMap::range(range_start..): the keys at or after range_start, ascending.
tree_range_from(tree, range_start) ==
    Ascending({k \in DOMAIN tree : bytes_leq(range_start, k)})

\* The loop of query over the range, from its n-th key on: the key it
\* selects, or None.
RECURSIVE blart_scan(_, _, _, _, _)
blart_scan(tree, keys, query_bytes, query_len, n) ==
    IF n > Len(keys) THEN [some |-> FALSE]
    ELSE IF ~bytes_starts_with(keys[n], query_bytes) THEN [some |-> FALSE]
    ELSE IF admits(query_len, tree[keys[n]].min_prefix_len)
         THEN [some |-> TRUE, key |-> keys[n]]
    ELSE blart_scan(tree, keys, query_bytes, query_len, n + 1)

\* The (key, metadata) query selects; the key alone is kept, the metadata is
\* keyword_tree[key].
BlartAmpIndex_best_match(self, q) ==
    blart_scan(self.keyword_tree, tree_range_from(self.keyword_tree, as_bytes(q)),
               as_bytes(q), char_count(q), 1)

\* Fault: the scan does not stop at the first admitted key and a result is
\* built for every admitted key that begins with the query.
BlartAmpIndex_query_every_match(self, q) ==
    LET keys == SelectSeq(tree_range_from(self.keyword_tree, as_bytes(q)),
                    LAMBDA k : /\ bytes_starts_with(k, as_bytes(q))
                               /\ self.keyword_tree[k].min_prefix_len <= char_count(q))
    IN  [n \in 1..Len(keys) |->
            BlartAmpIndex_build_result(self, self.keyword_tree[keys[n]], <<>>)[1]]

BlartAmpIndex_query(self, q) ==
    LET best == BlartAmpIndex_best_match(self, q)
    IN  IF best.some
        THEN BlartAmpIndex_build_result(self, self.keyword_tree[best.key], <<>>)
        ELSE <<>>

\* Fault: suggestions_count reports the size of the keyword index.
BlartAmpIndex_stats_keyword_index_size(self) ==
    [keyword_count |-> Cardinality(DOMAIN self.keyword_tree),
     suggestions_count |-> Cardinality(DOMAIN self.keyword_tree),
     advertisers_count |-> Cardinality(DOMAIN self.advertisers),
     titles_count |-> Cardinality(DOMAIN self.titles),
     url_templates_count |-> Cardinality(DOMAIN self.url_templates),
     iab_categories_count |-> Cardinality(DOMAIN self.iab_categories),
     icons_count |-> Cardinality(DOMAIN self.icons)]

\* HashMap<String, usize>: a record whose field names are the keys.
BlartAmpIndex_stats(self) ==
    [keyword_count |-> Cardinality(DOMAIN self.keyword_tree),
     suggestions_count |-> Len(self.suggestions),
     advertisers_count |-> Cardinality(DOMAIN self.advertisers),
     titles_count |-> Cardinality(DOMAIN self.titles),
     url_templates_count |-> Cardinality(DOMAIN self.url_templates),
     iab_categories_count |-> Cardinality(DOMAIN self.iab_categories),
     icons_count |-> Cardinality(DOMAIN self.icons)]

----------------------------------------------------------------------------
(* hybrid.rs: ShortPrefixCache and HybridAmpIndex                          *)

\* Keys of at most this many chars go to the short-key cache (build), and
\* queries of at most this many chars consult it first (query).
ShortKeyMax == 3
ShortQueryMax == 3

\* The iteration order of a std HashMap is fixed per instance and otherwise
\* arbitrary: hash_order, drawn when the map is created, stands for the
\* instance's hasher state.
HashOrders == {"ascending", "descending"}

\* for (key, value) in &self.exact_matches
hash_iter(exact_matches, hash_order) ==
    LET asc == Ascending({as_bytes(k) : k \in DOMAIN exact_matches})
        of_bytes(b) == CHOOSE k \in DOMAIN exact_matches : as_bytes(k) = b
        ord == IF hash_order = "ascending" THEN asc ELSE Reverse(asc)
    IN  [n \in 1..Len(ord) |-> of_bytes(ord[n])]

\* HashMap::insert: a later value replaces the one stored under the key.
ShortPrefixCache_insert(exact_matches, key, value) == Put(exact_matches, key, value)

\* The prefix scan of lookup from the n-th key of the iteration on; best is
\* the key held in best_match so far (None: best_key_len is usize::MAX).
RECURSIVE cache_scan(_, _, _, _, _, _)
cache_scan(exact_matches, keys, q, query_len, n, best) ==
    IF n > Len(keys) THEN best
    ELSE LET key == keys[n]
             take == /\ starts_with(key, q)
                     /\ admits(query_len, exact_matches[key].min_prefix_len)
                     /\ (~best.some \/ byte_len(key) < byte_len(best.key))
         IN  cache_scan(exact_matches, keys, q, query_len, n + 1,
                        IF take THEN [some |-> TRUE, key |-> key] ELSE best)

\* The key whose value lookup returns, or None.
ShortPrefixCache_lookup(exact_matches, hash_order, q, query_len) ==
    IF q \in DOMAIN exact_matches /\ admits(query_len, exact_matches[q].min_prefix_len)
    THEN [some |-> TRUE, key |-> q]
    ELSE cache_scan(exact_matches, hash_iter(exact_matches, hash_order),
                    q, query_len, 1, [some |-> FALSE])

HybridAmpIndex_new(hash_order) ==
    [variant |-> "hybrid",
     main_trie |-> EmptyMap,
     short_cache |-> EmptyMap,
     hash_order |-> hash_order,
     suggestions |-> <<>>,
     full_keywords |-> RunEndEncoding_new,
     advertisers |-> EmptyMap,
     titles |-> EmptyMap,
     url_templates |-> EmptyMap,
     click_url_templates |-> EmptyMap,
     impression_url_templates |-> EmptyMap,
     iab_categories |-> EmptyMap,
     icons |-> EmptyMap,
     keyword_count |-> 0]

\* Trie::insert: a later value replaces the one stored under the key.
trie_insert(trie, key, value) == Put(trie, key, value)

\* "Encode full keywords": the encoding after the record's pairs from the
\* n-th on are added.
RECURSIVE add_full_keywords(_, _, _)
add_full_keywords(rle, full_keywords, n) ==
    IF n > Len(full_keywords) THEN rle
    ELSE add_full_keywords(
             RunEndEncoding_add(rle, full_keywords[n].text, full_keywords[n].count),
             full_keywords, n + 1)

encode_full_keywords(rle, amp) ==
    IF amp.full_keywords # <<>>
    THEN add_full_keywords(rle, amp.full_keywords, 1)
    ELSE RunEndEncoding_add(rle, amp.advertiser, 1)

\* The loop over the collapsed keywords of one record, from entry n on
\* (entry n is the source's i = n - 1).
RECURSIVE hybrid_insert_keywords(_, _, _, _, _)
hybrid_insert_keywords(self, entries, sidx, fkw_start, n) ==
    IF n > Len(entries) THEN self
    ELSE LET kw == entries[n].key
             value == [suggestion_idx |-> sidx,
                       full_kw_idx |-> fkw_start + (n - 1),
                       min_prefix_len |-> entries[n].min_prefix_len]
             short == char_count(kw) <= ShortKeyMax
         IN  hybrid_insert_keywords(
                 [self EXCEPT
                     !.short_cache = IF short
                                     THEN ShortPrefixCache_insert(@, kw, value)
                                     ELSE @,
                     !.main_trie = IF short
                                   THEN @
                                   ELSE trie_insert(@, as_bytes(kw), value),
                     !.keyword_count = @ + 1],
                 entries, sidx, fkw_start, n + 1)

hybrid_build_one(self, lk, amp) ==
    LET adv == intern(amp.advertiser, lk.adv, self.advertisers)
        title == intern(amp.title, lk.title, self.titles)
        iab == intern(amp.iab_category, lk.iab, self.iab_categories)
        icon == intern(amp.icon_id, lk.icon, self.icons)
        url == extract_template(amp.url, lk.url, self.url_templates)
        click == extract_template(amp.click_url, lk.click, self.click_url_templates)
        imp == extract_template(amp.impression_url, lk.imp,
                                self.impression_url_templates)
        sidx == Len(self.suggestions)
        sug == [title_id |-> title.id,
                url_template_id |-> url.id, url_suffix |-> url.suffix,
                click_url_template_id |-> click.id, click_url_suffix |-> click.suffix,
                impression_url_template_id |-> imp.id,
                impression_url_suffix |-> imp.suffix,
                advertiser_id |-> adv.id,
                block_id |-> amp.block_id,
                iab_category_id |-> iab.id,
                icon_id |-> icon.id]
        fkw_start == Len(self.full_keywords.indices)
        stored == [self EXCEPT
                      !.suggestions = Append(@, sug),
                      !.full_keywords = encode_full_keywords(@, amp),
                      !.advertisers = adv.dict,
                      !.titles = title.dict,
                      !.url_templates = url.dict,
                      !.click_url_templates = click.dict,
                      !.impression_url_templates = imp.dict,
                      !.iab_categories = iab.dict,
                      !.icons = icon.dict]
    IN  [self |-> IF amp.keywords # <<>>
                  THEN hybrid_insert_keywords(stored, collapse_keywords(amp.keywords),
                                              sidx, fkw_start, 1)
                  ELSE stored,
         lk |->
            [adv |-> adv.lookup, title |-> title.lookup, url |-> url.lookup,
             click |-> click.lookup, imp |-> imp.lookup, iab |-> iab.lookup,
             icon |-> icon.lookup]]

RECURSIVE hybrid_build_from(_, _, _, _)
hybrid_build_from(self, lk, records, n) ==
    IF n > Len(records) THEN self
    ELSE LET step == hybrid_build_one(self, lk, records[n])
         IN  hybrid_build_from(step.self, step.lk, records, n + 1)

\* optimize_cache and shrink_to_fit change nothing a query reads.
HybridAmpIndex_build(self, records) == hybrid_build_from(self, NewLookups, records, 1)

HybridAmpIndex_build_result(self, sugg_idx, fkw_idx, res) ==
    IF sugg_idx < Len(self.suggestions)
    THEN LET sug == self.suggestions[sugg_idx + 1]
             advertiser == get_or_default(self.advertisers, sug.advertiser_id)
             fk == RunEndEncoding_get(self.full_keywords, fkw_idx)
         IN  push_result(res,
                 [title |-> get_or_default(self.titles, sug.title_id),
                  url |-> reconstruct_url(sug.url_template_id, sug.url_suffix,
                                          self.url_templates),
                  click_url |-> reconstruct_url(sug.click_url_template_id,
                                                sug.click_url_suffix,
                                                self.click_url_templates),
                  impression_url |-> reconstruct_url(sug.impression_url_template_id,
                                                     sug.impression_url_suffix,
                                                     self.impression_url_templates),
                  advertiser |-> advertiser,
                  block_id |-> sug.block_id,
                  iab_category |-> get_or_default(self.iab_categories,
                                                  sug.iab_category_id),
                  icon |-> get_or_default(self.icons, sug.icon_id),
                  full_keyword |-> IF fk.some THEN fk.value ELSE advertiser])
    ELSE res

\* Trie::iter_prefix: the keys that begin with the prefix, ascending.
iter_prefix(trie, query_bytes) ==
    Ascending({k \in DOMAIN trie : bytes_starts_with(k, query_bytes)})

\* The prefix search of query from the n-th key of the iteration on.
RECURSIVE trie_scan(_, _, _, _, _)
trie_scan(trie, keys, query_len, n, best) ==
    IF n > Len(keys) THEN best
    ELSE LET key == keys[n]
             take == /\ admits(query_len, trie[key].min_prefix_len)
                     /\ (~best.some \/ Len(key) < Len(best.key))
         IN  trie_scan(trie, keys, query_len, n + 1,
                       IF take THEN [some |-> TRUE, key |-> key] ELSE best)

\* The entry query answers with: the container it is in ("cache" or
\* "trie"), its key as bytes and its value; or None.
HybridAmpIndex_best_match(self, q) ==
    LET qlen == char_count(q)
        query_bytes == as_bytes(q)
        hit == IF qlen <= ShortQueryMax
               THEN ShortPrefixCache_lookup(self.short_cache, self.hash_order, q, qlen)
               ELSE [some |-> FALSE]
        scan == trie_scan(self.main_trie, iter_prefix(self.main_trie, query_bytes),
                          qlen, 1, [some |-> FALSE])
    IN  IF hit.some /\ admits(qlen, self.short_cache[hit.key].min_prefix_len)
        THEN [some |-> TRUE, from |-> "cache", key |-> as_bytes(hit.key),
              value |-> self.short_cache[hit.key]]
        ELSE IF /\ query_bytes \in DOMAIN self.main_trie
                /\ admits(qlen, self.main_trie[query_bytes].min_prefix_len)
        THEN [some |-> TRUE, from |-> "trie", key |-> query_bytes,
              value |-> self.main_trie[query_bytes]]
        ELSE IF scan.some
        THEN [some |-> TRUE, from |-> "trie", key |-> scan.key,
              value |-> self.main_trie[scan.key]]
        ELSE [some |-> FALSE]

HybridAmpIndex_query(self, q) ==
    LET best == HybridAmpIndex_best_match(self, q)
    IN  IF best.some
        THEN HybridAmpIndex_build_result(self, best.value.suggestion_idx,
                                         best.value.full_kw_idx, <<>>)
        ELSE <<>>

\* usize::saturating_sub
saturating_sub(a, b) == IF a >= b THEN a - b ELSE 0

HybridAmpIndex_stats(self) ==
    [keyword_count |-> self.keyword_count,
     suggestions_count |-> Len(self.suggestions),
     full_keywords_count |-> Len(self.full_keywords.indices),
     advertisers_count |-> Cardinality(DOMAIN self.advertisers),
     titles_count |-> Cardinality(DOMAIN self.titles),
     url_templates_count |-> Cardinality(DOMAIN self.url_templates),
     iab_categories_count |-> Cardinality(DOMAIN self.iab_categories),
     icons_count |-> Cardinality(DOMAIN self.icons),
     cache_exact_matches |-> Cardinality(DOMAIN self.short_cache),
     main_trie_estimated_size |->
         saturating_sub(self.keyword_count, Cardinality(DOMAIN self.short_cache))]

\* How query returns.  BlartAmpIndex indexes the suggestions vector with the
\* stored position (self.suggestions[metadata.suggestion_idx]), which panics
\* past the end; build_result returns Ok(()) otherwise and query Ok(results).
BlartAmpIndex_query_returns(self, q) ==
    LET best == BlartAmpIndex_best_match(self, q)
    IN  IF /\ best.some
           /\ self.keyword_tree[best.key].suggestion_idx >= Len(self.suggestions)
        THEN "panic"
        ELSE "Ok"

\* HybridAmpIndex reads the vector with get (if let Some), its build_result
\* returns Ok(()) on both paths and query Ok(results).
HybridAmpIndex_query_returns(self, q) == "Ok"

----------------------------------------------------------------------------
(* The inputs: records as a caller loads them (OriginalAmp)                *)

\* Bounds of the model.
MaxRecords == 2
MaxChains == 2

\* "ab", "ac", "aab", "aaba", "aé": a is 97, b is 98, c is 99, e-acute is
\* 233 (two bytes in UTF-8).
Words ==
    {<<97, 98>>, <<97, 99>>, <<97, 97, 98>>, <<97, 97, 98, 97>>, <<97, 233>>}

\* Keywords as they are authored: the prefixes of a word from `start` chars
\* on, each one char longer than the one before, with the word as the full
\* keyword of all of them.
Chain(word, start) ==
    [keywords |-> [n \in 1..(Len(word) - start + 1) |-> SubSeq(word, 1, start + n - 1)],
     full_keyword |-> [text |-> word, count |-> Len(word) - start + 1]]

Chains == UNION {{Chain(w, s) : s \in 1..Len(w)} : w \in Words}

RECURSIVE concat_keywords(_)
concat_keywords(chains) ==
    IF chains = <<>> THEN <<>>
    ELSE Head(chains).keywords \o concat_keywords(Tail(chains))

\* full_keywords is either given, one pair per chain, or given for the first
\* chain only, or left out of the JSON (serde's default: empty).
FullKeywordModes == {"parallel", "first", "absent"}

\* The other fields of a record: the record at position n of the input
\* carries the n-th bundle (cyclically).  The two bundles share the
\* advertiser and the category; "h/x?t" splits at '?', "c/1" at its last
\* '/', "i" and "" at 0.
Metas ==
    <<[title |-> <<84>>, advertiser |-> <<65>>, block_id |-> 1,
       iab_category |-> <<50, 50>>, icon_id |-> <<49>>,
       url |-> <<104, 47, 120, 63, 116>>,
       click_url |-> <<99, 47, 49>>,
       impression_url |-> <<105>>],
      [title |-> <<85>>, advertiser |-> <<65>>, block_id |-> 2,
       iab_category |-> <<50, 50>>, icon_id |-> <<50>>,
       url |-> <<104, 47, 120, 63, 117>>,
       click_url |-> <<99, 47, 50>>,
       impression_url |-> <<>>]>>

MetaOf(n) == Metas[((n - 1) % Len(Metas)) + 1]

OriginalAmp(chains, mode, meta) ==
    [keywords |-> concat_keywords(chains),
     full_keywords |-> IF mode = "parallel"
                       THEN [n \in 1..Len(chains) |-> chains[n].full_keyword]
                       ELSE IF mode = "first" /\ chains # <<>>
                       THEN <<chains[1].full_keyword>>
                       ELSE <<>>,
     title |-> meta.title,
     url |-> meta.url,
     advertiser |-> meta.advertiser,
     block_id |-> meta.block_id,
     iab_category |-> meta.iab_category,
     click_url |-> meta.click_url,
     impression_url |-> meta.impression_url,
     icon_id |-> meta.icon_id]

\* The records made of c chains that carry the bundle meta.
AmpsOf(c, meta) ==
    {OriginalAmp(chains, mode, meta) :
        chains \in [1..c -> Chains], mode \in FullKeywordModes}

\* The inputs of n records that hold at most `budget` chains together.
RECURSIVE InputsOf(_, _)
InputsOf(n, budget) ==
    IF n = 0 THEN {<<>>}
    ELSE UNION {{rest \o <<r>> : rest \in InputsOf(n - 1, budget - c),
                                 r \in AmpsOf(c, MetaOf(n))} :
                    c \in 0..budget}

AmpInputs == UNION {InputsOf(n, MaxChains) : n \in 0..MaxRecords}

\* The query strings: every prefix of a word, of "abb" and of "é" (the
\* empty string included).
Queries ==
    UNION {{SubSeq(w, 1, n) : n \in 0..Len(w)} :
              w \in Words \cup {<<97, 98, 98>>, <<233>>}}

----------------------------------------------------------------------------
(* The program: an index of either variant is created, built once from the *)
(* loaded records and queried.  results is what the last call returned;    *)
(* query and best_match record the argument of the last query and the      *)
(* entry it selected.                                                      *)

None == [some |-> FALSE]

Init ==
    /\ index \in {BlartAmpIndex_new} \cup {HybridAmpIndex_new(o) : o \in HashOrders}
    /\ amps = <<>>
    /\ stats = None
    /\ manager = None
    /\ pc = "new"
    /\ query = None
    /\ results = <<>>
    /\ best_match = None
    /\ collapser = None
    /\ encoding = None
    /\ dictionary = None

index_build(self, records) ==
    IF self.variant = "blart"
    THEN BlartAmpIndex_build(self, records)
    ELSE HybridAmpIndex_build(self, records)

index_best_match(self, q) ==
    IF self.variant = "blart"
    THEN BlartAmpIndex_best_match(self, q)
    ELSE HybridAmpIndex_best_match(self, q)

index_query_returns(self, q) ==
    IF self.variant = "blart"
    THEN BlartAmpIndex_query_returns(self, q)
    ELSE HybridAmpIndex_query_returns(self, q)

index_stats(self) ==
    IF self.variant = "blart"
    THEN BlartAmpIndex_stats(self)
    ELSE HybridAmpIndex_stats(self)

index_query(self, q) ==
    IF self.variant = "blart"
    THEN BlartAmpIndex_query(self, q)
    ELSE HybridAmpIndex_query(self, q)

Build(records) ==
    /\ pc = "new"
    /\ index' = index_build(index, records)
    /\ amps' = records
    /\ pc' = "built"
    /\ query' = None
    /\ results' = <<>>
    /\ best_match' = None
    /\ stats' = None
    /\ UNCHANGED <<collapser, encoding, dictionary, manager>>

Query(q) ==
    /\ query' = [some |-> TRUE, q |-> q, returned |-> index_query_returns(index, q)]
    /\ results' = IF index_query_returns(index, q) = "Ok"
                  THEN index_query(index, q)
                  ELSE <<>>
    /\ best_match' = index_best_match(index, q)
    /\ stats' = None
    /\ UNCHANGED <<amps, index, pc, collapser, encoding, dictionary, manager>>

\* stats holds what the last call returned if that call was stats().
Stats ==
    /\ stats' = [some |-> TRUE, map |-> index_stats(index)]
    /\ query' = None
    /\ results' = <<>>
    /\ best_match' = None
    /\ UNCHANGED <<amps, index, pc, collapser, encoding, dictionary, manager>>

Next ==
    \/ \E records \in AmpInputs : Build(records)
    \/ \E q \in Queries : Query(q)
    \/ Stats

Spec == Init /\ [][Next]_vars

----------------------------------------------------------------------------
(* BlartAmpIndex built from records whose full keywords are parallel to    *)
(* the keywords and are either the last keyword of their chain or a longer *)
(* text ("aaba"), as authored full keywords are.                           *)

\* Each chain with its own word and with "aaba" as its full keyword.
TaggedChains ==
    UNION {{[keywords |-> c.keywords,
             full_keyword |-> [text |-> t, count |-> c.full_keyword.count]] :
               t \in {c.full_keyword.text, <<97, 97, 98, 97>>}} : c \in Chains}

RECURSIVE TaggedInputsOf(_, _)
TaggedInputsOf(n, budget) ==
    IF n = 0 THEN {<<>>}
    ELSE UNION {{rest \o <<OriginalAmp(chains, "parallel", MetaOf(n))>> :
                     rest \in TaggedInputsOf(n - 1, budget - c),
                     chains \in [1..c -> TaggedChains]} :
                    c \in 0..budget}

TaggedInputs == UNION {TaggedInputsOf(n, MaxChains) : n \in 0..MaxRecords}

InitFullKeyword ==
    /\ index = BlartAmpIndex_new
    /\ amps = <<>>
    /\ stats = None
    /\ manager = None
    /\ pc = "new"
    /\ query = None
    /\ results = <<>>
    /\ best_match = None
    /\ collapser = None
    /\ encoding = None
    /\ dictionary = None

NextFullKeyword ==
    \/ \E records \in TaggedInputs : Build(records)
    \/ \E q \in Queries : Query(q)

SpecFullKeyword == InitFullKeyword /\ [][NextFullKeyword]_vars

----------------------------------------------------------------------------
(* The collapser on its own: both forms applied to one keyword list and    *)
(* one run-length encoded full_keywords list.                              *)

MaxKeywords == 3
MaxWordLen == 3
MaxPairs == 2
MaxCount == 2

\* Every string of a and e-acute of at most MaxWordLen chars.
CollapseWords == UNION {[1..n -> {97, 233}] : n \in 0..MaxWordLen}

KeywordLists == UNION {[1..n -> CollapseWords] : n \in 0..MaxKeywords}

\* (text, repeat_count) pairs; "aa" is also a keyword, "T" is not.
FullKeywordPairs == [text : {<<97, 97>>, <<84>>}, count : 0..MaxCount]

FullKeywordLists == UNION {[1..n -> FullKeywordPairs] : n \in 0..MaxPairs}

InitCollapse ==
    /\ index = BlartAmpIndex_new
    /\ amps = <<>>
    /\ stats = None
    /\ manager = None
    /\ pc = "new"
    /\ query = None
    /\ results = <<>>
    /\ best_match = None
    /\ collapser \in [some : {FALSE}, keywords : KeywordLists,
                      full_keywords : FullKeywordLists]
    /\ encoding = None
    /\ dictionary = None

\* out and out_ex are what the two functions return; runs and runs_ex are
\* the runs [i, j) their loops formed, over keywords and over the zipped
\* keywords.
Collapse ==
    /\ ~collapser.some
    /\ collapser' =
          [some |-> TRUE,
           keywords |-> collapser.keywords,
           full_keywords |-> collapser.full_keywords,
           out |-> collapse_keywords(collapser.keywords),
           runs |-> collapse_runs(collapser.keywords, 0),
           out_ex |-> collapse_keywords_ex(collapser.keywords, collapser.full_keywords),
           runs_ex |-> collapse_runs(
               SubSeq(collapser.keywords, 1,
                      zip_len(collapser.keywords, collapser.full_keywords)), 0)]
    /\ UNCHANGED <<amps, index, pc, query, results, best_match, encoding,
                   dictionary, stats, manager>>

NextCollapse == Collapse

SpecCollapse == InitCollapse /\ [][NextCollapse]_vars

----------------------------------------------------------------------------
(* RunEndEncoding on its own: pairs are added to a new encoding and        *)
(* logical indexes are looked up.  added is the list of the pairs given to *)
(* add so far, got the argument and the result of the last get.            *)

MaxAdds == 3
MaxIndex == 6

InitEncoding ==
    /\ index = BlartAmpIndex_new
    /\ amps = <<>>
    /\ stats = None
    /\ manager = None
    /\ pc = "new"
    /\ query = None
    /\ results = <<>>
    /\ best_match = None
    /\ collapser = None
    /\ dictionary = None
    /\ \E checks \in BOOLEAN :
           encoding = [rle |-> RunEndEncoding_new, added |-> <<>>, got |-> None,
                       overflow_checks |-> checks, overflowed |-> FALSE,
                       returned |-> "Ok"]

\* overflow_checks is the build's setting (on in a debug profile, off in a
\* release profile); overflowed and returned tell of the last add whether
\* its arithmetic left the range of usize and whether it panicked.
Add(value, count) ==
    /\ Len(encoding.added) < MaxAdds
    /\ LET overflows == add_overflows(encoding.rle, count)
           panics == overflows /\ encoding.overflow_checks
       IN  encoding' = [encoding EXCEPT
                           !.rle = IF panics
                                   THEN RunEndEncoding_add_panics(@, value)
                                   ELSE RunEndEncoding_add(@, value, count),
                           !.added = Append(@, [text |-> value, count |-> count]),
                           !.got = None,
                           !.overflowed = overflows,
                           !.returned = IF panics THEN "panic" ELSE "Ok"]
    /\ UNCHANGED <<amps, index, pc, query, results, best_match, collapser,
                   dictionary, stats, manager>>

Get(k) ==
    /\ encoding' = [encoding EXCEPT
                       !.got = [some |-> TRUE, index |-> k,
                                value |-> RunEndEncoding_get(encoding.rle, k)]]
    /\ UNCHANGED <<amps, index, pc, query, results, best_match, collapser,
                   dictionary, stats, manager>>

NextEncoding ==
    \/ \E value \in {<<97, 97>>, <<84>>}, count \in 0..MaxCount : Add(value, count)
    \/ \E k \in 0..MaxIndex : Get(k)

SpecEncoding == InitEncoding /\ [][NextEncoding]_vars

----------------------------------------------------------------------------
(* extract_template on its own: urls are split one after the other against *)
(* one template dictionary.  calls counts the urls split so far; url, id   *)
(* and suffix are the argument and the result of the last call.            *)

MaxUrlLen == 3
MaxExtracts == 2

\* Every string of 'h', '/' and '?' of at most MaxUrlLen chars.
Urls == UNION {[1..n -> {104, Slash, QuestionMark}] : n \in 0..MaxUrlLen}

InitTemplate ==
    /\ index = BlartAmpIndex_new
    /\ amps = <<>>
    /\ stats = None
    /\ manager = None
    /\ pc = "new"
    /\ query = None
    /\ results = <<>>
    /\ best_match = None
    /\ collapser = None
    /\ encoding = None
    /\ dictionary = [some |-> FALSE, calls |-> 0,
                     template_lookup |-> EmptyMap, templates |-> EmptyMap]

Extract(url) ==
    /\ dictionary.calls < MaxExtracts
    /\ LET r == extract_template(url, dictionary.template_lookup, dictionary.templates)
       IN  dictionary' = [some |-> TRUE, calls |-> dictionary.calls + 1,
                          template_lookup |-> r.lookup, templates |-> r.dict,
                          url |-> url, id |-> r.id, suffix |-> r.suffix]
    /\ UNCHANGED <<amps, index, pc, query, results, best_match, collapser,
                   encoding, stats, manager>>

NextTemplate == \E url \in Urls : Extract(url)

SpecTemplate == InitTemplate /\ [][NextTemplate]_vars

----------------------------------------------------------------------------
(* What the claims speak of                                                *)

\* The keys of the prefix index, as bytes, and the value kept under a key.
StoredKeys(self) ==
    IF self.variant = "blart"
    THEN DOMAIN self.keyword_tree
    ELSE {as_bytes(k) : k \in DOMAIN self.short_cache} \cup DOMAIN self.main_trie

StoredValue(self, kb) ==
    IF self.variant = "blart" THEN self.keyword_tree[kb]
    ELSE IF kb \in DOMAIN self.main_trie THEN self.main_trie[kb]
    ELSE self.short_cache[CHOOSE k \in DOMAIN self.short_cache : as_bytes(k) = kb]

\* The keys that begin with q, and those of them the min-prefix rule admits.
BeginWith(self, q) ==
    {k \in StoredKeys(self) : bytes_starts_with(k, as_bytes(q))}

Admitted(self, q) ==
    {k \in BeginWith(self, q) : StoredValue(self, k).min_prefix_len <= Len(q)}

\* The number of chars a UTF-8 byte string encodes: its non-continuation bytes.
Utf8Chars(b) == Cardinality({i \in 1..Len(b) : b[i] < 128 \/ b[i] >= 192})

\* x is shorter than y in bytes and in chars.
Shorter(x, y) == Len(x) < Len(y) /\ Utf8Chars(x) < Utf8Chars(y)

\* What the variant's collapser emits for a record, and the runs it forms
\* over the words it walks.
WordsOf(self, amp) ==
    IF self.variant = "blart"
    THEN SubSeq(amp.keywords, 1, zip_len(amp.keywords, amp.full_keywords))
    ELSE amp.keywords

RunsOf(self, amp) == collapse_runs(WordsOf(self, amp), 0)

EmittedKeys(self, amp) ==
    {WordsOf(self, amp)[r.j] : r \in {RunsOf(self, amp)[n] : n \in DOMAIN RunsOf(self, amp)}}

Emitters(self, records, k) ==
    {n \in 1..Len(records) : k \in EmittedKeys(self, records[n])}

FirstEmitter(self, records, k) ==
    CHOOSE n \in Emitters(self, records, k) : \A m \in Emitters(self, records, k) : n <= m

\* The result carries the record's title, advertiser, block_id, category,
\* icon and three urls.
SameSuggestion(r, amp) ==
    /\ r.title = amp.title
    /\ r.advertiser = amp.advertiser
    /\ r.block_id = amp.block_id
    /\ r.iab_category = amp.iab_category
    /\ r.icon = amp.icon_id
    /\ r.url = amp.url
    /\ r.click_url = amp.click_url
    /\ r.impression_url = amp.impression_url

Queried == pc = "built" /\ query.some

----------------------------------------------------------------------------
(* C1: for either variant, every build input and every query string,       *)
(* query returns a sequence of length 0 or 1.                              *)

C1_AtMostOneResult == query.some => Len(results) <= 1

\* Two stored keys are admitted for the query and one result is returned.
C1_Witness ==
    /\ Queried
    /\ Cardinality(Admitted(index, query.q)) >= 2
    /\ Len(results) = 1

(* C2: if query(q) is non-empty, the key whose record is returned is the    *)
(* smallest key in byte order among the keys of the index that begin with  *)
(* q and have min_prefix_len <= char_count(q).                             *)

C2_SmallestAdmittedKey ==
    (Queried /\ results # <<>>) =>
        /\ best_match.some
        /\ \A k \in Admitted(index, query.q) : bytes_leq(best_match.key, k)

(* C3: a non-empty query(q) returns the record of a shortest admitted key: *)
(* no key that begins with q and has min_prefix_len <= char_count(q) is    *)
(* shorter than the chosen key (shorter: fewer bytes and fewer chars).     *)

C3_ShortestAdmittedKey ==
    (Queried /\ results # <<>>) =>
        /\ best_match.some
        /\ \A k \in Admitted(index, query.q) : ~Shorter(k, best_match.key)

(* C4: in BlartAmpIndex, for any key k inserted during build, query(k) is   *)
(* non-empty and its suggestion is the record that first inserted k.       *)

C5_HybridFirstInserterKept ==
    (Queried /\ index.variant = "hybrid" /\ Emitters(index, amps, query.q) # {}) =>
        /\ results # <<>>
        /\ SameSuggestion(results[1], amps[FirstEmitter(index, amps, query.q)])

(* C6: if every indexed key that begins with q has min_prefix_len >        *)
(* char_count(q), query(q) returns an empty result.                        *)

C6_MinPrefixRejection ==
    (query.some /\ \A k \in BeginWith(index, query.q) :
                      StoredValue(index, k).min_prefix_len > Len(query.q))
        => results = <<>>

\* Some key begins with the query, none is admitted, nothing is returned.
C6_Witness ==
    /\ Queried
    /\ BeginWith(index, query.q) # {}
    /\ Admitted(index, query.q) = {}
    /\ results = <<>>

(* C7: for every input record r and every collapsed key k derived from     *)
(* r's keywords, query(k) yields a result whose title, advertiser,         *)
(* block_id, iab_category, icon and three urls equal those of r.           *)

RunKeywords(self, amp, r) == {WordsOf(self, amp)[t + 1] : t \in r.i..(r.j - 1)}

RunKey(self, amp, r) == WordsOf(self, amp)[r.j]

RunSet(self, amp) == {RunsOf(self, amp)[n] : n \in DOMAIN RunsOf(self, amp)}

\* The runs of the input whose keywords include q: <<record, run>>.
RunsWith(self, records, q) ==
    {<<n, r>> \in UNION {{n} \X RunSet(self, records[n]) : n \in 1..Len(records)} :
        q \in RunKeywords(self, records[n], r)}

\* Two results are the same suggestion.
SameResult(r1, r2) ==
    /\ r1.title = r2.title /\ r1.advertiser = r2.advertiser
    /\ r1.block_id = r2.block_id /\ r1.iab_category = r2.iab_category
    /\ r1.icon = r2.icon /\ r1.url = r2.url
    /\ r1.click_url = r2.click_url /\ r1.impression_url = r2.impression_url

(* C8: for every record and every run [i, j) the collapser forms, querying *)
(* with each keyword of the run returns exactly one result, the same       *)
(* suggestion that querying the run's collapsed key returns.  Stated for   *)
(* the runs that stand alone: a run whose collapsed key no other run of    *)
(* the input emits must give exactly one result for each of its keywords,  *)
(* and the suggestion of its collapsed key when no other admitted key      *)
(* begins with the keyword.                                                *)

C8_RunKeywordsResolveAlike ==
    Queried =>
        \A nr \in RunsWith(index, amps, query.q) :
            LET k == RunKey(index, amps[nr[1]], nr[2])
                of_key == index_query(index, k)
                others == {mr \in UNION {{n} \X RunSet(index, amps[n]) : n \in 1..Len(amps)} :
                              mr # nr /\ RunKey(index, amps[mr[1]], mr[2]) = k}
            IN  others = {} =>
                    /\ Len(results) = 1
                    /\ Admitted(index, query.q) = {as_bytes(k)} =>
                           /\ Len(of_key) = 1
                           /\ SameResult(results[1], of_key[1])

(* C9: every entry (k, m, _) emitted by collapse_keywords and by           *)
(* collapse_keywords_ex has m equal to the char count of the first keyword *)
(* of the run that k closes, m <= char_count(k), and for a single entry    *)
(* (no run) m = char_count(k).                                             *)

EntryOfRun(words, e, r) ==
    /\ e.key = words[r.j]
    /\ e.min_prefix_len = Len(words[r.i + 1])
    /\ e.min_prefix_len <= Len(e.key)
    /\ (r.j = r.i + 1) => e.min_prefix_len = Len(e.key)

C9_MinPrefixIsFirstOfRun ==
    collapser.some =>
        /\ Len(collapser.out) = Len(collapser.runs)
        /\ \A n \in DOMAIN collapser.out :
               EntryOfRun(collapser.keywords, collapser.out[n], collapser.runs[n])
        /\ Len(collapser.out_ex) = Len(collapser.runs_ex)
        /\ \A n \in DOMAIN collapser.out_ex :
               EntryOfRun(collapser.keywords, collapser.out_ex[n], collapser.runs_ex[n])

\* Both forms emit a run of three keywords that starts with a two-byte char.
C9_Witness ==
    /\ collapser.some
    /\ \E n \in DOMAIN collapser.out :
          /\ collapser.runs[n].j = collapser.runs[n].i + 3
          /\ collapser.keywords[collapser.runs[n].i + 1] = <<233>>
          /\ collapser.out[n].min_prefix_len = 1
    /\ \E n \in DOMAIN collapser.out_ex :
          /\ collapser.runs_ex[n].j = collapser.runs_ex[n].i + 3
          /\ collapser.keywords[collapser.runs_ex[n].i + 1] = <<233>>
          /\ collapser.out_ex[n].min_prefix_len = 1

(* C10: after build, every stored compact record (every element of the     *)
(* suggestions vector) is referenced by at least one entry of the prefix   *)
(* index.                                                                  *)

Referenced(self, sidx) ==
    \E k \in StoredKeys(self) : StoredValue(self, k).suggestion_idx = sidx

----------------------------------------------------------------------------
(* C11: after add calls with positive counts, get(k) for a logical index k *)
(* below the total expanded length returns the k-th element (from 0) of    *)
(* the run-length expansion of the added pairs, the value of the least run *)
(* whose end is at least k.                                                *)

\* The last call was get(k), k lies within the expansion of the added pairs
\* and every count was positive.
GotWithin ==
    /\ encoding.got.some
    /\ \A n \in 1..Len(encoding.added) : encoding.added[n].count > 0
    /\ encoding.got.index < Len(expand_rle(encoding.added))

C11_GetIsExpansion ==
    GotWithin =>
        encoding.got.value =
            [some |-> TRUE, value |-> expand_rle(encoding.added)[encoding.got.index + 1]]

----------------------------------------------------------------------------
(* C12: extract_template splits a url at its first '?' if it has one, else *)
(* at its last '/' if it has one, else at position 0; the part before the  *)
(* split is interned as the template, the rest is returned as the suffix.  *)

Has(s, c) == \E i \in 1..Len(s) : s[i] = c

\* The template that the returned id stands for.
TemplateOfLast == dictionary.templates[dictionary.id]

C12_SplitRule ==
    dictionary.some =>
        /\ dictionary.id \in DOMAIN dictionary.templates
        /\ dictionary.template_lookup[TemplateOfLast] = dictionary.id
        /\ TemplateOfLast = SubSeq(dictionary.url, 1, Len(TemplateOfLast))
        /\ dictionary.suffix =
              SubSeq(dictionary.url, Len(TemplateOfLast) + 1, Len(dictionary.url))
        /\ IF Has(dictionary.url, QuestionMark)
           THEN /\ ~Has(TemplateOfLast, QuestionMark)
                /\ Head(dictionary.suffix) = QuestionMark
           ELSE IF Has(dictionary.url, Slash)
           THEN /\ Head(dictionary.suffix) = Slash
                /\ ~Has(Tail(dictionary.suffix), Slash)
           ELSE TemplateOfLast = <<>> /\ dictionary.suffix = dictionary.url

\* A url with a '/' after its first '?' has been split at the '?'.
C12_Witness ==
    /\ dictionary.some
    /\ Has(dictionary.url, QuestionMark)
    /\ Has(dictionary.suffix, Slash)
    /\ Len(TemplateOfLast) > 0

(* C13: for every url, the empty one and one without '?' and '/' included, *)
(* and every earlier state of the template dictionary, reconstruct_url of  *)
(* the id and suffix that extract_template returned is the url.            *)

C13_UrlRoundTrip ==
    dictionary.some =>
        reconstruct_url(dictionary.id, dictionary.suffix, dictionary.templates)
            = dictionary.url

\* The second url split has its template already in the dictionary, which
\* holds one template only, and is rebuilt from it.
C13_Witness ==
    /\ dictionary.some
    /\ dictionary.calls = 2
    /\ Cardinality(DOMAIN dictionary.templates) = 1
    /\ Len(TemplateOfLast) > 0
    /\ reconstruct_url(dictionary.id, dictionary.suffix, dictionary.templates)
           = dictionary.url

----------------------------------------------------------------------------
(* C14: after build every dictionary (advertisers, titles, categories,     *)
(* icons, the three url template dictionaries) of size n has exactly the   *)
(* ids 0..n-1, given in first-seen order, with distinct ids for distinct   *)
(* strings; a value seen before gets its id and the dictionary does not    *)
(* grow.                                                                   *)

\* The values in the order of their first occurrence, each once.
RECURSIVE FirstSeen(_, _)
FirstSeen(values, seen) ==
    IF values = <<>> THEN seen
    ELSE FirstSeen(Tail(values),
                   IF \E i \in 1..Len(seen) : seen[i] = Head(values)
                   THEN seen ELSE Append(seen, Head(values)))

\* dict holds exactly the values, numbered from 0 in first-seen order.
DenseFirstSeen(dict, values) ==
    /\ DOMAIN dict = 0..(Len(FirstSeen(values, <<>>)) - 1)
    /\ \A id \in DOMAIN dict : dict[id] = FirstSeen(values, <<>>)[id + 1]

TemplateText(url) == SubSeq(url, 1, split_idx(url))

\* Each dictionary of the index with the values build hands to it, record
\* after record.
DictionariesOf(self, records) ==
    {[dict |-> self.advertisers,
      values |-> [n \in 1..Len(records) |-> records[n].advertiser]],
     [dict |-> self.titles,
      values |-> [n \in 1..Len(records) |-> records[n].title]],
     [dict |-> self.iab_categories,
      values |-> [n \in 1..Len(records) |-> records[n].iab_category]],
     [dict |-> self.icons,
      values |-> [n \in 1..Len(records) |-> records[n].icon_id]],
     [dict |-> self.url_templates,
      values |-> [n \in 1..Len(records) |-> TemplateText(records[n].url)]],
     [dict |-> IF self.variant = "blart" THEN self.click_templates
               ELSE self.click_url_templates,
      values |-> [n \in 1..Len(records) |-> TemplateText(records[n].click_url)]],
     [dict |-> IF self.variant = "blart" THEN self.imp_templates
               ELSE self.impression_url_templates,
      values |-> [n \in 1..Len(records) |-> TemplateText(records[n].impression_url)]]}

C14_DictionariesDense ==
    pc = "built" =>
        \A d \in DictionariesOf(index, amps) : DenseFirstSeen(d.dict, d.values)

\* Two records with one advertiser and two titles: the advertiser was
\* interned once, the titles are numbered 0 and 1 in input order.
C14_Witness ==
    /\ pc = "built"
    /\ Len(amps) = 2
    /\ amps[1].advertiser = amps[2].advertiser
    /\ DOMAIN index.advertisers = {0}
    /\ DOMAIN index.titles = {0, 1}
    /\ index.titles[1] = amps[2].title

----------------------------------------------------------------------------
(* C15: two fresh indexes of the same variant built from the same input    *)
(* return equal results for every query string, also when HybridAmpIndex   *)
(* answers by scanning the short-key cache.                                *)

\* The fresh instances of the variant of self: a HashMap of a new
\* HybridAmpIndex iterates in an order of its own.
FreshInstances(self) ==
    IF self.variant = "blart" THEN {BlartAmpIndex_new}
    ELSE {HybridAmpIndex_new(o) : o \in HashOrders}

C15_BuildDeterministic ==
    Queried =>
        \A other \in FreshInstances(index) :
            index_query(index_build(other, amps), query.q) = results

----------------------------------------------------------------------------
(* C16: in HybridAmpIndex, when several keys of equal length begin with q  *)
(* and are all admitted by the min-prefix rule, none of them being q       *)
(* itself, query(q) returns the record of the smallest of them in byte     *)
(* order, in the short-key cache as in the trie.                           *)

\* At least two keys are admitted for q, none is q, and all have the same
\* length, counted in bytes and in chars.
EqualLengthTie(self, q) ==
    /\ Cardinality(Admitted(self, q)) >= 2
    /\ as_bytes(q) \notin Admitted(self, q)
    /\ \A x, y \in Admitted(self, q) :
           Len(x) = Len(y) /\ Utf8Chars(x) = Utf8Chars(y)

C16_HybridTieBreak ==
    (Queried /\ index.variant = "hybrid" /\ EqualLengthTie(index, query.q)) =>
        /\ best_match.some
        /\ \A k \in Admitted(index, query.q) : bytes_leq(best_match.key, k)

(* C17: for every build input and every query q of at most 3 chars,        *)
(* HybridAmpIndex.query(q), which consults the short-key cache before the  *)
(* trie, returns what the full ascending min-prefix search over all        *)
(* collapsed entries (cache keys and trie keys together) returns.          *)

\* The full search: the first key in ascending byte order that begins with
\* q and is admitted, and the result built from its value.
FullSearch(self, q) ==
    IF Admitted(self, q) = {} THEN <<>>
    ELSE LET k == CHOOSE x \in Admitted(self, q) :
                      \A y \in Admitted(self, q) : bytes_leq(x, y)
         IN  HybridAmpIndex_build_result(self, StoredValue(self, k).suggestion_idx,
                                         StoredValue(self, k).full_kw_idx, <<>>)

C17_FastPathIsFullSearch ==
    (Queried /\ index.variant = "hybrid" /\ char_count(query.q) <= ShortQueryMax) =>
        results = FullSearch(index, query.q)

(* C19: when HybridAmpIndex builds a result from a stored full-keyword     *)
(* index that no added run covers (an index past the last run end          *)
(* included), the full_keyword of the result is the advertiser text of the *)
(* record.                                                                 *)

\* No run of the encoding covers idx.
OutOfRange(rle, idx) ==
    \/ rle.indices = <<>>
    \/ idx > rle.indices[Len(rle.indices)]

C19_OutOfRangeIsAdvertiser ==
    (/\ Queried
     /\ index.variant = "hybrid"
     /\ best_match.some
     /\ OutOfRange(index.full_keywords, best_match.value.full_kw_idx)) =>
        /\ Len(results) = 1
        /\ results[1].full_keyword = results[1].advertiser

----------------------------------------------------------------------------
(* C18: an index built from records whose keywords are all non-empty       *)
(* strings answers query("") with an empty result: no stored key has       *)
(* min_prefix_len 0, so none is admitted for a query of no chars.          *)

NonEmptyKeywords(records) ==
    \A n \in 1..Len(records) :
        \A i \in 1..Len(records[n].keywords) : records[n].keywords[i] # <<>>

C18_EmptyQueryIsEmpty ==
    (pc = "built" /\ NonEmptyKeywords(amps)) =>
        /\ \A k \in StoredKeys(index) : StoredValue(index, k).min_prefix_len >= 1
        /\ (query.some /\ query.q = <<>>) => results = <<>>

\* The empty string was asked of an index that holds two keys or more with
\* min_prefix_len 1: nothing was returned.
C18_Witness ==
    /\ Queried
    /\ query.q = <<>>
    /\ Cardinality({k \in StoredKeys(index) :
                       StoredValue(index, k).min_prefix_len = 1}) >= 2
    /\ results = <<>>

----------------------------------------------------------------------------
(* C20: on a built index and on one never built, for every query string    *)
(* (empty, non-ASCII, matching nothing) query returns Ok; a query without  *)
(* a match returns Ok with an empty result, not an Err and not a panic:    *)
(* every suggestion index stored in the prefix index is a position of the  *)
(* suggestions vector.                                                     *)

C20_QueryNeverFails ==
    /\ \A k \in StoredKeys(index) :
           StoredValue(index, k).suggestion_idx \in 0..(Len(index.suggestions) - 1)
    /\ query.some =>
           /\ query.returned = "Ok"
           /\ Admitted(index, query.q) = {} => results = <<>>

\* A non-ASCII query that no key of a built index begins with returned Ok
\* and nothing.
C20_Witness ==
    /\ Queried
    /\ query.q = <<233>>
    /\ StoredKeys(index) # {}
    /\ query.returned = "Ok"
    /\ results = <<>>

\* A query of an index that was never built returned Ok and nothing.
C20_WitnessNeverBuilt ==
    /\ pc = "new"
    /\ query.some
    /\ query.returned = "Ok"
    /\ results = <<>>

----------------------------------------------------------------------------
(* C21: after build(records) on a fresh index, stats() has the key         *)
(* "suggestions_count" and its value is the number of records given to     *)
(* build, whatever the number of their keywords (so it is positive for a   *)
(* non-empty input).                                                       *)

C21_SuggestionsCount ==
    (pc = "built" /\ stats.some) =>
        /\ "suggestions_count" \in DOMAIN stats.map
        /\ stats.map.suggestions_count = Len(amps)

\* Two records, one of them without keywords, are counted as two.
C21_Witness ==
    /\ pc = "built"
    /\ stats.some
    /\ Len(amps) = 2
    /\ \E n \in 1..2 : amps[n].keywords = <<>>
    /\ stats.map.suggestions_count = 2

----------------------------------------------------------------------------
(* C30: after HybridAmpIndex.build every collapsed key is in exactly one   *)
(* container (keys of at most 3 chars in the short-key cache only, longer  *)
(* keys in the trie only) and the keyword_count of stats is the number of  *)
(* distinct keys of cache and trie together, so main_trie_estimated_size   *)
(* is the number of trie keys, also when records emit the same key.        *)

C30_KeywordCountIsDistinctKeys ==
    (pc = "built" /\ index.variant = "hybrid" /\ stats.some) =>
        /\ \A k \in DOMAIN index.short_cache :
               char_count(k) <= ShortKeyMax /\ as_bytes(k) \notin DOMAIN index.main_trie
        /\ \A kb \in DOMAIN index.main_trie : Utf8Chars(kb) > ShortKeyMax
        /\ stats.map.keyword_count =
               Cardinality(DOMAIN index.short_cache) + Cardinality(DOMAIN index.main_trie)
        /\ stats.map.main_trie_estimated_size = Cardinality(DOMAIN index.main_trie)

----------------------------------------------------------------------------
(* C22: every run [i, j) the collapser collapses is a chain of one-char    *)
(* extensions: each keyword of the run but the first is its predecessor    *)
(* plus exactly one char, so every keyword of the run is a prefix of the   *)
(* emitted key keywords[j-1]; and the run is maximal: keywords[j], if      *)
(* there is one, does not extend it.                                       *)

\* y is x plus exactly one char.
OneCharExtension(x, y) ==
    /\ Len(y) = Len(x) + 1
    /\ SubSeq(y, 1, Len(x)) = x

\* The run [r.i, r.j) of the source is the positions r.i + 1 .. r.j here.
C22_RunsAreChains ==
    collapser.some =>
        \A n \in 1..Len(collapser.runs) :
            LET r == collapser.runs[n]
                kw == collapser.keywords
            IN  /\ \A t \in (r.i + 1)..(r.j - 1) : OneCharExtension(kw[t], kw[t + 1])
                /\ \A t \in (r.i + 1)..r.j : starts_with(kw[r.j], kw[t])
                /\ r.j < Len(kw) => ~OneCharExtension(kw[r.j], kw[r.j + 1])

----------------------------------------------------------------------------
(* C23: collapse_keywords_ex zips keywords with the expansion of           *)
(* full_keywords and truncates to the shorter: with L the minimum of the   *)
(* number of keywords and the sum of the repeat counts, its output without *)
(* the full keyword is collapse_keywords of the first L keywords; later    *)
(* keywords give no entry (none at all for empty full_keywords), and for   *)
(* equal lengths the two collapsers agree.                                 *)

RECURSIVE SumOfCounts(_)
SumOfCounts(pairs) ==
    IF pairs = <<>> THEN 0 ELSE Head(pairs).count + SumOfCounts(Tail(pairs))

\* The entries without their full keyword.
Projected(entries) ==
    [n \in 1..Len(entries) |->
        [key |-> entries[n].key, min_prefix_len |-> entries[n].min_prefix_len]]

----------------------------------------------------------------------------
(* C24: in BlartAmpIndex every emitted entry carries the expanded full     *)
(* keyword that is paired with the last keyword of its run, tagged Same    *)
(* exactly when it equals the collapsed key and Different(text) otherwise; *)
(* so the full_keyword of a query result is the full keyword at the        *)
(* position of the matched collapsed key in the keywords of the record     *)
(* that owns the entry.                                                    *)

\* The full keyword at the position of key k in the keywords of amp: the
\* expansion's element at the end of the first run that emits k.
FullKeywordAt(self, amp, k) ==
    LET runs == RunsOf(self, amp)
        n == CHOOSE x \in 1..Len(runs) :
                 /\ WordsOf(self, amp)[runs[x].j] = k
                 /\ \A y \in 1..(x - 1) : WordsOf(self, amp)[runs[y].j] # k
    IN  expand_rle(amp.full_keywords)[runs[n].j]

----------------------------------------------------------------------------
(* C25: in HybridAmpIndex, for records whose full_keywords expansion is    *)
(* parallel to their keywords, the full_keyword of a query result is the   *)
(* full keyword at the position of the matched collapsed key in the        *)
(* keywords of the owning record, for every record of the input and every  *)
(* collapsed entry of a record.                                            *)

\* The expansion of full_keywords has one element per keyword.
Parallel(amp) == SumOfCounts(amp.full_keywords) = Len(amp.keywords)

\* The record the matched entry belongs to, and the matched key as one of
\* its keywords.
Owner == amps[best_match.value.suggestion_idx + 1]

KeyOfMatch ==
    CHOOSE w \in {Owner.keywords[n] : n \in DOMAIN Owner.keywords} :
        as_bytes(w) = best_match.key

C25_HybridFullKeyword ==
    (/\ Queried
     /\ index.variant = "hybrid"
     /\ results # <<>>
     /\ \A n \in 1..Len(amps) : Parallel(amps[n])) =>
        results[1].full_keyword =
            FullKeywordAt(index, Owner, KeyOfMatch)

----------------------------------------------------------------------------
(* C26: for every sequence of add calls with non-negative counts, a count  *)
(* of 0 and a count of 0 in the very first add included, the encoding      *)
(* keeps its run-end invariant: values and indices have the same length,   *)
(* indices is non-decreasing and indices[i] is the sum of the first i + 1  *)
(* counts less one; no add underflows or overflows.                        *)

C26_AddKeepsRunEnds ==
    LET rle == encoding.rle
    IN  /\ ~encoding.overflowed
        /\ encoding.returned = "Ok"
        /\ Len(rle.values) = Len(rle.indices)
        /\ \A i \in 1..Len(rle.indices) :
               rle.indices[i] = SumOfCounts(SubSeq(encoding.added, 1, i)) - 1
        /\ \A i \in 1..(Len(rle.indices) - 1) : rle.indices[i] <= rle.indices[i + 1]

\* What holds of the encoding when no add has been given a first count of
\* 0: the same, with counts of 0 after the first add.
C26_PositiveFirstCount ==
    (encoding.added # <<>> /\ encoding.added[1].count > 0) => C26_AddKeepsRunEnds

----------------------------------------------------------------------------
(* build called more than once on the same instance.  build does not clear *)
(* the index: suggestions, keys and dictionary entries of an earlier call  *)
(* stay, and each call starts with empty lookup tables.  amps is the       *)
(* concatenation of the inputs of all calls, so that suggestion number n   *)
(* is the record amps[n + 1].                                              *)

MaxBuilds == 2

\* Inputs of one record of one chain, with either bundle of the other
\* fields.
RebuildInputs ==
    {<<OriginalAmp(<<c>>, "parallel", Metas[k])>> : c \in Chains, k \in DOMAIN Metas}

BuildMore(records) ==
    /\ Len(amps) + Len(records) <= MaxBuilds
    /\ index' = index_build(index, records)
    /\ amps' = amps \o records
    /\ pc' = "built"
    /\ query' = None
    /\ results' = <<>>
    /\ best_match' = None
    /\ stats' = None
    /\ UNCHANGED <<collapser, encoding, dictionary, manager>>

NextRebuild ==
    \/ \E records \in RebuildInputs : BuildMore(records)
    \/ \E q \in Queries : Query(q)

SpecRebuild == Init /\ [][NextRebuild]_vars

----------------------------------------------------------------------------
(* C27: after any sequence of build calls on the same instance, every      *)
(* record of an earlier build still reconstructs, via its keys, to its     *)
(* original title, advertiser, iab category, icon and urls: a later build  *)
(* never reassigns or overwrites a dictionary id that stored compact       *)
(* records refer to.                                                       *)

\* What build_result makes of the entry stored under key kb.
Reconstructed(self, kb) ==
    LET v == StoredValue(self, kb)
    IN  IF self.variant = "blart"
        THEN BlartAmpIndex_build_result(self, v, <<>>)[1]
        ELSE HybridAmpIndex_build_result(self, v.suggestion_idx, v.full_kw_idx, <<>>)[1]

C27_RebuildKeepsRecords ==
    pc = "built" =>
        \A kb \in StoredKeys(index) :
            SameSuggestion(Reconstructed(index, kb),
                           amps[StoredValue(index, kb).suggestion_idx + 1])

----------------------------------------------------------------------------
(* python_bridge.rs: AmpIndexManager.  A registry of named indexes behind  *)
(* an RwLock, each index behind an RwLock of its own (IndexHandle).        *)
(* Callers are threads; a call is a sequence of steps, one per statement   *)
(* that blocks or that other threads can observe: deserializing, building  *)
(* one record into the index local to the call, acquiring a lock, the      *)
(* statements run while the lock is held.  Guards are dropped when the     *)
(* call returns.                                                           *)

MaxThreads == 2
MaxCalls == 2

Threads == 1..MaxThreads
Names == {"x", "y"}
NoThread == 0
NoHandle == 0

\* Documents handed to build_from_json and files handed to build_from_file:
\* well-formed documents hold the records that deserializing yields.
AmpsOne ==
    <<OriginalAmp(<<Chain(<<97, 98>>, 1)>>, "parallel", MetaOf(1)),
      OriginalAmp(<<Chain(<<97, 97, 98>>, 2)>>, "parallel", MetaOf(2))>>

AmpsTwo == <<OriginalAmp(<<Chain(<<97, 98>>, 2)>>, "parallel", MetaOf(2))>>

JsonDocs ==
    {[well_formed |-> TRUE, amps |-> AmpsOne],
     [well_formed |-> TRUE, amps |-> AmpsTwo],
     [well_formed |-> FALSE, amps |-> <<>>]}

JsonFiles ==
    {[exists |-> TRUE, json |-> [well_formed |-> TRUE, amps |-> AmpsTwo]],
     [exists |-> TRUE, json |-> [well_formed |-> FALSE, amps |-> <<>>]],
     [exists |-> FALSE, json |-> [well_formed |-> FALSE, amps |-> <<>>]]}

ManagerQueries == {<<97>>, <<97, 97>>}

\* serde_json::from_str::<Vec<OriginalAmp>>
serde_json_from_str(json) ==
    IF json.well_formed THEN [ok |-> TRUE, amps |-> json.amps] ELSE [ok |-> FALSE]

\* load_amp_data: File::open, then serde_json::from_reader.
load_amp_data(file) ==
    IF file.exists THEN serde_json_from_str(file.json) ELSE [ok |-> FALSE]

\* RwLock: a writer excludes everyone, readers exclude writers.  Whether a
\* waiting writer holds back new readers depends on the platform; policy
\* is the choice made for one run.
LockPolicies == {"readers_first", "writers_first"}

RwLock_new == [readers |-> {}, writer |-> NoThread]

can_write(lock) == lock.writer = NoThread /\ lock.readers = {}

can_read(lock, policy, writer_waits) ==
    /\ lock.writer = NoThread
    /\ policy = "writers_first" => ~writer_waits

\* The index local to a build call: the index so far, the lookup tables of
\* the call, the records and the number of records built.
NoLocal == [some |-> FALSE]

local_new(records) ==
    [some |-> TRUE, self |-> BlartAmpIndex_new, lk |-> NewLookups,
     amps |-> records, n |-> 0]

\* One iteration of build's loop over the records.
local_build_record(local) ==
    LET step == blart_build_one(local.self, local.lk, local.amps[local.n + 1])
    IN  [local EXCEPT !.self = step.self, !.lk = step.lk, !.n = @ + 1]

\* Fault: the index is handed to the registry before build has run.
build_returned_at_once(local) == TRUE

\* index.build(&amps) has returned: the loop has walked all the records.
build_returned(local) == local.n = Len(local.amps)

\* HashMap::insert, HashMap::remove, contains_key and keys of the registry.
\* A handle is the Arc's identity, the index it owns and the records the
\* index was built from.
registry_insert(indexes, name, handle) == Put(indexes, name, handle)

\* Fault: remove leaves the entry in the registry.
registry_remove_nothing(indexes, name) == indexes

registry_remove(indexes, name) ==
    [k \in DOMAIN indexes \ {name} |-> indexes[k]]

manager_has(indexes, name) == name \in DOMAIN indexes

\* The orders in which keys() may yield the names.
manager_list(indexes) ==
    {s \in UNION {[1..n -> DOMAIN indexes] : n \in {Cardinality(DOMAIN indexes)}} :
        \A i, j \in DOMAIN s : i # j => s[i] # s[j]}

Idle ==
    [pc |-> "idle", op |-> "none", name |-> "", json |-> None, q |-> <<>>,
     local |-> NoLocal, handle |-> NoHandle, returned |-> "none",
     value |-> <<>>, calls |-> 0]

InitManager ==
    /\ index = BlartAmpIndex_new
    /\ amps = <<>>
    /\ stats = None
    /\ pc = "new"
    /\ query = None
    /\ results = <<>>
    /\ best_match = None
    /\ collapser = None
    /\ encoding = None
    /\ dictionary = None
    /\ \E policy \in LockPolicies :
           manager = [some |-> TRUE,
                      indexes |-> EmptyMap,
                      registry_lock |-> RwLock_new,
                      index_locks |-> {},
                      handles |-> 0,
                      policy |-> policy,
                      threads |-> [t \in Threads |-> Idle]]

Thread(t) == manager.threads[t]

\* t is blocked in self.indexes.write().
WaitsToWrite(t) ==
    \/ Thread(t).pc = "build" /\ build_returned(Thread(t).local)
    \/ Thread(t).pc = "write_lock"

WriterWaits == \E t \in Threads : WaitsToWrite(t)

ManagerUnchanged ==
    UNCHANGED <<amps, index, pc, query, results, best_match, collapser,
                encoding, dictionary, stats>>

\* The call returns: its guards and locals are dropped.
Return(t, returned, value) ==
    [Thread(t) EXCEPT !.pc = "idle", !.local = NoLocal, !.handle = NoHandle,
                      !.returned = returned, !.value = value]

Unlocked(t, lock) ==
    [readers |-> lock.readers \ {t},
     writer |-> IF lock.writer = t THEN NoThread ELSE lock.writer]

\* A thread calls a method of the manager.
ManagerCall(t, op, name, json, q) ==
    /\ Thread(t).pc = "idle"
    /\ Thread(t).calls < MaxCalls
    /\ manager' = [manager EXCEPT !.threads[t] =
           [pc |-> CASE op \in {"build_from_json", "build_from_file"} -> "parse"
                     [] op = "delete" -> "write_lock"
                     [] OTHER -> "read_lock",
            op |-> op, name |-> name, json |-> json, q |-> q,
            local |-> NoLocal, handle |-> NoHandle, returned |-> "none",
            value |-> <<>>, calls |-> Thread(t).calls + 1]]
    /\ ManagerUnchanged

\* build_from_json: from_str, ValueError on failure; build_from_file:
\* load_amp_data, IOError on failure.  On success BlartAmpIndex::new().
ManagerParse(t) ==
    /\ Thread(t).pc = "parse"
    /\ LET parsed == IF Thread(t).op = "build_from_json"
                     THEN serde_json_from_str(Thread(t).json)
                     ELSE load_amp_data(Thread(t).json)
       IN  manager' = [manager EXCEPT !.threads[t] =
               IF parsed.ok
               THEN [@ EXCEPT !.pc = "build", !.local = local_new(parsed.amps)]
               ELSE Return(t, IF Thread(t).op = "build_from_json"
                              THEN "ValueError" ELSE "IOError", <<>>)]
    /\ ManagerUnchanged

\* index.build(&amps), record by record, on the index local to the call.
ManagerBuildRecord(t) ==
    /\ Thread(t).pc = "build"
    /\ ~build_returned(Thread(t).local)
    /\ manager' = [manager EXCEPT !.threads[t].local = local_build_record(@)]
    /\ ManagerUnchanged

\* self.indexes.write().unwrap() of build_from_* and of delete.
ManagerWriteLock(t) ==
    /\ WaitsToWrite(t)
    /\ can_write(manager.registry_lock)
    /\ manager' = [manager EXCEPT
           !.registry_lock.writer = t,
           !.threads[t].pc = IF Thread(t).op = "delete" THEN "remove" ELSE "insert"]
    /\ ManagerUnchanged

\* indexes.insert(index_name, Arc::new(RwLock::new(index))); Ok(())
ManagerInsert(t) ==
    /\ Thread(t).pc = "insert"
    /\ manager' = [manager EXCEPT
           !.indexes = registry_insert(@, Thread(t).name,
                           [id |-> manager.handles + 1,
                            index |-> Thread(t).local.self,
                            amps |-> Thread(t).local.amps]),
           !.handles = @ + 1,
           !.registry_lock = Unlocked(t, @),
           !.threads[t] = Return(t, "Ok", <<>>)]
    /\ ManagerUnchanged

\* indexes.remove(&index_name).ok_or_else(KeyError)?; Ok(())
ManagerRemove(t) ==
    /\ Thread(t).pc = "remove"
    /\ manager' = [manager EXCEPT
           !.indexes = registry_remove(@, Thread(t).name),
           !.registry_lock = Unlocked(t, @),
           !.threads[t] = Return(t, IF manager_has(manager.indexes, Thread(t).name)
                                    THEN "Ok" ELSE "KeyError", <<>>)]
    /\ ManagerUnchanged

\* self.indexes.read().unwrap() of query, list and has.
ManagerReadLock(t) ==
    /\ Thread(t).pc = "read_lock"
    /\ can_read(manager.registry_lock, manager.policy, WriterWaits)
    /\ manager' = [manager EXCEPT
           !.registry_lock.readers = @ \cup {t},
           !.threads[t].pc = Thread(t).op]
    /\ ManagerUnchanged

\* indexes.get(&index_name).ok_or_else(KeyError)?
ManagerGet(t) ==
    /\ Thread(t).pc = "query"
    /\ IF manager_has(manager.indexes, Thread(t).name)
       THEN manager' = [manager EXCEPT
                !.threads[t].pc = "index_read_lock",
                !.threads[t].handle = manager.indexes[Thread(t).name].id]
       ELSE manager' = [manager EXCEPT
                !.registry_lock = Unlocked(t, @),
                !.threads[t] = Return(t, "KeyError", <<>>)]
    /\ ManagerUnchanged

\* index_handle.read().unwrap(): no call ever takes the write side of an
\* index's lock, so the read side is never held back.
ManagerIndexReadLock(t) ==
    /\ Thread(t).pc = "index_read_lock"
    /\ manager' = [manager EXCEPT
           !.index_locks = @ \cup {[handle |-> Thread(t).handle, reader |-> t]},
           !.threads[t].pc = "run"]
    /\ ManagerUnchanged

\* The handle t holds, as the registry stores it.
HandleOf(t) ==
    CHOOSE h \in {manager.indexes[k] : k \in DOMAIN manager.indexes} :
        h.id = Thread(t).handle

\* index.query(&query), the conversion of the results, the return.
ManagerQueryRun(t) ==
    /\ Thread(t).pc = "run"
    /\ LET self == HandleOf(t).index
           returned == BlartAmpIndex_query_returns(self, Thread(t).q)
       IN  manager' = [manager EXCEPT
               !.index_locks = @ \ {[handle |-> Thread(t).handle, reader |-> t]},
               !.registry_lock = Unlocked(t, @),
               !.threads[t] =
                   IF returned = "Ok"
                   THEN Return(t, "Ok", BlartAmpIndex_query(self, Thread(t).q))
                   ELSE Return(t, "PanicException", <<>>)]
    /\ ManagerUnchanged

\* indexes.keys().cloned().collect()
ManagerList(t) ==
    /\ Thread(t).pc = "list"
    /\ \E keys \in manager_list(manager.indexes) :
           manager' = [manager EXCEPT
               !.registry_lock = Unlocked(t, @),
               !.threads[t] = Return(t, "Ok", keys)]
    /\ ManagerUnchanged

\* indexes.contains_key(&index_name)
ManagerHas(t) ==
    /\ Thread(t).pc = "has"
    /\ manager' = [manager EXCEPT
           !.registry_lock = Unlocked(t, @),
           !.threads[t] = Return(t, "Ok", manager_has(manager.indexes, Thread(t).name))]
    /\ ManagerUnchanged

NextManager ==
    \E t \in Threads :
        \/ \E name \in Names, json \in JsonDocs :
               ManagerCall(t, "build_from_json", name, json, <<>>)
        \/ \E name \in Names, file \in JsonFiles :
               ManagerCall(t, "build_from_file", name, file, <<>>)
        \/ \E name \in Names, q \in ManagerQueries :
               ManagerCall(t, "query", name, None, q)
        \/ \E name \in Names : ManagerCall(t, "delete", name, None, <<>>)
        \/ ManagerCall(t, "list", "", None, <<>>)
        \/ \E name \in Names : ManagerCall(t, "has", name, None, <<>>)
        \/ ManagerParse(t)
        \/ ManagerBuildRecord(t)
        \/ ManagerWriteLock(t)
        \/ ManagerInsert(t)
        \/ ManagerRemove(t)
        \/ ManagerReadLock(t)
        \/ ManagerGet(t)
        \/ ManagerIndexReadLock(t)
        \/ ManagerQueryRun(t)
        \/ ManagerList(t)
        \/ ManagerHas(t)

SpecManager == InitManager /\ [][NextManager]_vars

----------------------------------------------------------------------------
(* C28: query(name, q) and delete(name) on a name that is not registered   *)
(* return a KeyError and leave the set of registered indexes unchanged;    *)
(* build_from_json with a document that cannot be deserialized returns a   *)
(* ValueError and leaves the registry unchanged, an index already          *)
(* registered under the name included; after a successful delete(name),    *)
(* has(name) is false and list() does not contain name.                    *)

\* The step returns t's call.
Returns(t) == Thread(t).pc # "idle" /\ manager'.threads[t].pc = "idle"

\* The step is taken by t.
Steps(t) == manager'.threads[t] # manager.threads[t]

\* The step is the one in which t's call looks the name up.
LooksUp(t) == Steps(t) /\ Thread(t).pc \in {"query", "remove"}

C28_ErrorHandling ==
    [][\A t \in Threads :
          LET name == Thread(t).name
              returned == manager'.threads[t].returned
          IN  /\ (LooksUp(t) /\ ~manager_has(manager.indexes, name)) =>
                     /\ Returns(t)
                     /\ returned = "KeyError"
                     /\ manager'.indexes = manager.indexes
              /\ (LooksUp(t) /\ Returns(t) /\ returned = "KeyError") =>
                     ~manager_has(manager.indexes, name)
              /\ (/\ Steps(t)
                  /\ Thread(t).pc = "parse"
                  /\ Thread(t).op = "build_from_json"
                  /\ ~Thread(t).json.well_formed) =>
                     /\ Returns(t)
                     /\ returned = "ValueError"
                     /\ manager'.indexes = manager.indexes
              /\ (Thread(t).pc = "remove" /\ Returns(t) /\ returned = "Ok") =>
                     /\ ~manager_has(manager'.indexes, name)
                     /\ \A keys \in manager_list(manager'.indexes) :
                            \A i \in DOMAIN keys : keys[i] # name
                     /\ \A k \in DOMAIN manager.indexes \ {name} :
                            /\ manager_has(manager'.indexes, k)
                            /\ manager'.indexes[k] = manager.indexes[k]]_vars

\* One thread's delete of a registered name succeeded and left the other
\* name registered; the other thread's build_from_json of a malformed
\* document failed on that other, registered name.
C28_Witness ==
    /\ manager.some
    /\ \E t, u \in Threads :
          /\ Thread(t).pc = "idle" /\ Thread(t).op = "delete"
          /\ Thread(t).returned = "Ok"
          /\ ~manager_has(manager.indexes, Thread(t).name)
          /\ Thread(u).pc = "idle" /\ Thread(u).op = "build_from_json"
          /\ Thread(u).returned = "ValueError"
          /\ manager_has(manager.indexes, Thread(u).name)

----------------------------------------------------------------------------
(* C29: under any interleaving of concurrent calls of the manager, a query *)
(* for a name observes either no index (KeyError) or a completely built    *)
(* index, the one registered under the name while the query runs, never a  *)
(* partially built one; and no interleaving deadlocks: locks are taken     *)
(* registry first, index second, and the registry's write lock is held     *)
(* only for the final insert or remove.                                    *)

\* The index of the handle is what build makes of the handle's records.
Complete(handle) ==
    handle.index = BlartAmpIndex_build(BlartAmpIndex_new, handle.amps)

\* t can take a step.
CanStep(t) ==
    CASE Thread(t).pc = "idle" -> FALSE
      [] WaitsToWrite(t) -> can_write(manager.registry_lock)
      [] Thread(t).pc = "read_lock" ->
             can_read(manager.registry_lock, manager.policy, WriterWaits)
      [] OTHER -> TRUE

InCall(t) == Thread(t).pc # "idle"

HoldsRegistry(t) ==
    t \in manager.registry_lock.readers \/ manager.registry_lock.writer = t

HoldsIndex(t) == \E l \in manager.index_locks : l.reader = t

C29_QueriesSeeCompleteIndexes ==
    manager.some =>
        /\ \A k \in DOMAIN manager.indexes : Complete(manager.indexes[k])
        /\ \A t \in Threads :
              /\ Thread(t).pc \in {"index_read_lock", "run"} =>
                    /\ manager_has(manager.indexes, Thread(t).name)
                    /\ manager.indexes[Thread(t).name].id = Thread(t).handle
              /\ HoldsIndex(t) => HoldsRegistry(t)
              /\ manager.registry_lock.writer = t => Thread(t).pc \in {"insert", "remove"}
        /\ manager.registry_lock.writer # NoThread => manager.registry_lock.readers = {}
        /\ (\E t \in Threads : InCall(t)) => \E t \in Threads : CanStep(t)

\* A query is about to run on the index registered under its name while
\* the other thread, having built a replacement, waits for the write lock.
C29_Witness ==
    /\ manager.some
    /\ \E t, u \in Threads :
          /\ Thread(t).pc = "run"
          /\ HoldsIndex(t)
          /\ Thread(u).op \in {"build_from_json", "build_from_file"}
          /\ Thread(u).name = Thread(t).name
          /\ WaitsToWrite(u)
          /\ Len(Thread(u).local.amps) > 0
          /\ ~can_write(manager.registry_lock)

====
